---- MODULE Spec2Model ----
(***************************************************************************)
(* Stock Dashboard (app.py): the portfolio store, the script run of main() *)
(* with its sidebar operations, the valuation loop with the stale-price    *)
(* write-back, the metrics and the 6-month history aggregation.            *)
(*                                                                         *)
(* A portfolio is the ordered dict of portfolio.json: a sequence of        *)
(* holdings, one per ticker, in insertion order.  A holding is the dict    *)
(* main() stores (shares, buy_price, last_known_price; name and buy_date   *)
(* are carried through untouched and are left out), keyed by its ticker.   *)
(* A holding written by a version of the file that has no last_known_price *)
(* key is the record without that field (info.get(..., 0.0) reads it).     *)
(*                                                                         *)
(* A pandas Series is a partial function from the frame's index 1..n to    *)
(* numbers: a date outside its DOMAIN is a NaN cell.  Floats are modelled  *)
(* as exact numbers; a percentage is the fraction [num, den], den > 0.     *)
(***************************************************************************)
EXTENDS Integers, Sequences, FiniteSets, TLC

VARIABLES
    file,            \* portfolio.json: [exists, content]
    cache,           \* st.cache_data entry of get_live_data: [valid, tickers, data]
    pc,              \* per script run: position in main()
    portfolio,       \* per script run: main()'s portfolio dict
    live_data,       \* per script run: main()'s live_data
    i,               \* per script run: index of the next holding of the loop of line 163
    portfolio_rows,  \* per script run: main()'s portfolio_rows
    data_updated,    \* per script run: main()'s data_updated
    snapshot,        \* per script run: top_abs, top_pct, worst_abs (row numbers), chart
    history_df,      \* per script run: main()'s history_df
    writes,          \* per script run: number of save_portfolio calls made by the run
    directives,      \* per script run: the (ticker, price) updates of lines 182-183
    log,             \* the completed writes, in the order of their save_portfolio
    overlap,         \* a run loaded the file while another run was between load and end
    prev             \* rows of the last completed cycle on the data still cached

vars == <<file, cache, pc, portfolio, live_data, i, portfolio_rows, data_updated,
          snapshot, history_df, writes, directives, log, overlap, prev>>

(***************************************************************************)
(* Bounds                                                                  *)
(***************************************************************************)
MaxPrice == 2
MaxShares == 2
NDates == 2

Tickers == {"AAA", "BBB"}
Runs == {1, 2}
\* A closing price as the data source reports it: it may be zero or negative
\* (line 179 tests for it).
Prices == (-1)..MaxPrice

(***************************************************************************)
(* The portfolio dict                                                      *)
(***************************************************************************)
keys(p) == [k \in 1..Len(p) |-> p[k].ticker]

HasTicker(p, t) == \E k \in 1..Len(p) : p[k].ticker = t

IndexOf(p, t) == CHOOSE k \in 1..Len(p) : p[k].ticker = t

\* (mutant) portfolio = {t: info}: the dict is replaced, not extended.
dict_set_only(p, t, info) == <<info>>

\* portfolio[t] = info: an existing key keeps its place, a new key goes last.
dict_set(p, t, info) ==
    IF HasTicker(p, t) THEN [p EXCEPT ![IndexOf(p, t)] = info] ELSE Append(p, info)

\* del portfolio[t]
dict_del(p, t) == SelectSeq(p, LAMBDA h : h.ticker # t)

HasLkp(info) == "last_known_price" \in DOMAIN info

\* (mutant) the value of the position is stored instead of the price.
SetLkp_value(info, price) ==
    [ticker |-> info.ticker, shares |-> info.shares, buy_price |-> info.buy_price,
     last_known_price |-> price * info.shares]

\* portfolio[ticker]['last_known_price'] = price
SetLkp(info, price) ==
    [ticker |-> info.ticker, shares |-> info.shares, buy_price |-> info.buy_price,
     last_known_price |-> price]

NoFile == [exists |-> FALSE, content |-> <<>>]

\* load_portfolio: the file's dict, {} when there is no file.
load_portfolio == IF file.exists THEN file.content ELSE <<>>

\* save_portfolio(p): the whole dict replaces the file's content.
save_portfolio(p) == [exists |-> TRUE, content |-> p]

\* The dict of lines 129-135.
NewHolding(t, amount, final_buy_price) ==
    [ticker |-> t, shares |-> amount, buy_price |-> final_buy_price,
     last_known_price |-> final_buy_price]

\* A holding of a portfolio.json written without the last_known_price key.
LegacyHolding == [ticker |-> "AAA", shares |-> 1, buy_price |-> 1]

(***************************************************************************)
(* Market data: the frame yf.download returns                              *)
(***************************************************************************)
NoCloseFrame == [hasClose |-> FALSE, Close |-> <<>>]

\* Close columns over the index 1..n: the latest cell is NaN or ranges over
\* Prices; the earlier cells are all NaN (the ticker has just been listed) or
\* all 1.
CloseCols(n) ==
    {c \in UNION {[S -> Prices] : S \in {{}, {n} \cap (1..n), 1..(n - 1), 1..n}} :
        \A d \in DOMAIN c : d < n => c[d] = 1}

\* The frame of one ticker: every field of the download is there.
TickerFrames(n) == {[hasClose |-> TRUE, Close |-> c] : c \in CloseCols(n)}

\* A flat frame: it may lack the Close column.
Frames(n) == {NoCloseFrame} \cup TickerFrames(n)

\* The results of yf.download(tickers, group_by='ticker'): columns keyed by
\* ticker (any subset of the requested tickers may be there), or, for a single
\* requested ticker, the flat frame of that ticker.  The index is shared by
\* every column; it is empty when nothing was retrieved.
KeyedData(tk, n) ==
    {[keyed |-> TRUE, n |-> n, frames |-> f, flat |-> NoCloseFrame] :
        f \in UNION {[K -> TickerFrames(n)] : K \in SUBSET {tk[k] : k \in 1..Len(tk)}}}

FlatData(n) ==
    {[keyed |-> FALSE, n |-> n, frames |-> <<>>, flat |-> fr] : fr \in Frames(n)}

LiveData(tk) ==
    KeyedData(tk, 0) \cup KeyedData(tk, NDates)
    \cup (IF Len(tk) = 1 THEN FlatData(0) \cup FlatData(NDates) ELSE {})

NoData == [keyed |-> TRUE, n |-> 0, frames |-> <<>>, flat |-> NoCloseFrame]

NoCache == [valid |-> FALSE, tickers |-> <<>>, data |-> NoData]

(***************************************************************************)
(* The valuation of one holding (lines 163-213)                            *)
(***************************************************************************)
\* Lines 169-172: live_data[ticker], and the whole frame on KeyError.  The
\* columns of a keyed frame are (ticker, field) pairs: 'Close' is no column of
\* the whole keyed frame (tickers are upper case, line 99).
stock_df(ld, t) ==
    IF ld.keyed /\ t \in DOMAIN ld.frames THEN ld.frames[t]
    ELSE IF ld.keyed THEN NoCloseFrame
    ELSE ld.flat

\* stock_df['Close'].isna().all(): true of an empty column.
isna_all(df, n) == \A d \in 1..n : d \notin DOMAIN df.Close

\* Lines 174-179: the column is there and not all NaN, and its last cell
\* (iloc[-1]) is not NaN and > 0.
HasLivePrice(ld, t) ==
    LET df == stock_df(ld, t) IN
        /\ df.hasClose
        /\ ~isna_all(df, ld.n)
        /\ ld.n \in DOMAIN df.Close
        /\ df.Close[ld.n] > 0

\* price_candidate of line 175, read only where HasLivePrice holds.
price_candidate(ld, t) == stock_df(ld, t).Close[ld.n]

\* (mutant) the update is flagged for every valid price, changed or not.
needs_update_always(info, price) == TRUE

\* Line 181: info.get('last_known_price') != current_price (None when the key
\* is missing, and None differs from every number).
needs_update(info, price) == ~HasLkp(info) \/ info.last_known_price # price

\* (mutant) the fallback reads the buy price.
fallback_price_buy(info) == info.buy_price

\* Line 189: info.get('last_known_price', 0.0)
fallback_price(info) == IF HasLkp(info) THEN info.last_known_price ELSE 0

\* (mutant) the guard tests cost_basis != 0 instead of cost_basis > 0.
gain_loss_pct_nonzero(gain_loss_amt, cost_basis) ==
    IF cost_basis # 0
    THEN [num |-> (IF cost_basis > 0 THEN 1 ELSE -1) * gain_loss_amt * 100,
          den |-> (IF cost_basis > 0 THEN 1 ELSE -1) * cost_basis]
    ELSE [num |-> 0, den |-> 1]

\* Line 198
gain_loss_pct(gain_loss_amt, cost_basis) ==
    IF cost_basis > 0
    THEN [num |-> gain_loss_amt * 100, den |-> cost_basis]
    ELSE [num |-> 0, den |-> 1]

\* Lines 192-213: the row of a holding at a current price.
Row(info, current_price) ==
    LET shares == info.shares
        buy_price == info.buy_price
        current_value == current_price * shares
        cost_basis == buy_price * shares
        gain_loss_amt == current_value - cost_basis
    IN  [Ticker |-> info.ticker, Shares |-> shares, BuyPrice |-> buy_price,
         CurrentPrice |-> current_price, CurrentValue |-> current_value,
         GainLoss |-> gain_loss_amt,
         GainPct |-> gain_loss_pct(gain_loss_amt, cost_basis)]

\* (mutant) a holding without a positive price gets no row.
append_row_priced(rows, row) ==
    IF row.CurrentPrice > 0 THEN Append(rows, row) ELSE rows

\* Line 203: portfolio_rows.append(row)
append_row(rows, row) == Append(rows, row)

(***************************************************************************)
(* Metrics (lines 222-231)                                                 *)
(***************************************************************************)
\* a <= b for fractions with positive denominators
FracLeq(a, b) == a.num * b.den <= b.num * a.den

\* (mutant) the label of the last maximum.
idxmax_last(col) ==
    CHOOSE k \in 1..Len(col) :
        /\ \A j \in 1..Len(col) : col[j] <= col[k]
        /\ \A j \in (k + 1)..Len(col) : col[j] < col[k]

\* Series.idxmax of a column of numbers: the label of the first maximum.
idxmax(col) ==
    CHOOSE k \in 1..Len(col) :
        /\ \A j \in 1..Len(col) : col[j] <= col[k]
        /\ \A j \in 1..(k - 1) : col[j] < col[k]

\* Series.idxmin: the label of the first minimum.
idxmin(col) ==
    CHOOSE k \in 1..Len(col) :
        /\ \A j \in 1..Len(col) : col[k] <= col[j]
        /\ \A j \in 1..(k - 1) : col[k] < col[j]

\* idxmax of the 'Gain %' column (fractions).
idxmax_pct(col) ==
    CHOOSE k \in 1..Len(col) :
        /\ \A j \in 1..Len(col) : FracLeq(col[j], col[k])
        /\ \A j \in 1..(k - 1) : ~FracLeq(col[k], col[j])

GainLossCol(rows) == [k \in 1..Len(rows) |-> rows[k].GainLoss]

GainPctCol(rows) == [k \in 1..Len(rows) |-> rows[k].GainPct]

(***************************************************************************)
(* History aggregation (lines 295-316)                                     *)
(***************************************************************************)
\* pd.DataFrame(): no column, no row.
EmptyFrame == [cols |-> FALSE, n |-> 0, TotalValue |-> <<>>]

\* DataFrame.empty: an axis of length 0.
df_empty(h) == ~h.cols \/ h.n = 0

\* stock_hist['Close'] * qty
val_series(close, qty) == [d \in DOMAIN close |-> close[d] * qty]

\* (mutant) a.add(b) without fill_value: NaN where either is NaN.
series_add_nofill(a, b) == [d \in DOMAIN a \cap DOMAIN b |-> a[d] + b[d]]

\* a.add(b, fill_value=0) on the shared index: a cell is NaN only where both
\* are NaN, and a NaN beside a number counts as 0.
series_add(a, b) ==
    [d \in DOMAIN a \cup DOMAIN b |->
        (IF d \in DOMAIN a THEN a[d] ELSE 0) + (IF d \in DOMAIN b THEN b[d] ELSE 0)]

\* Lines 298-301: live_data[ticker], the whole frame on any exception.
stock_hist(ld, t) == stock_df(ld, t)

\* Line 303: 'Close' in stock_hist.columns
hist_has_close(ld, t) == stock_hist(ld, t).hasClose

\* One pass of the loop of line 296 for the holding info.
HistoryStep(h, ld, info) ==
    IF hist_has_close(ld, info.ticker)
    THEN LET vs == val_series(stock_hist(ld, info.ticker).Close, info.shares) IN
         IF df_empty(h)
         THEN [cols |-> TRUE, n |-> ld.n, TotalValue |-> vs]
         ELSE [h EXCEPT !.TotalValue = series_add(h.TotalValue, vs)]
    ELSE h

\* The loop of line 296 over the first k holdings of p.
RECURSIVE HistoryFold(_, _, _)
HistoryFold(p, ld, k) ==
    IF k = 0 THEN EmptyFrame ELSE HistoryStep(HistoryFold(p, ld, k - 1), ld, p[k])

\* Lines 310-316: the line chart, or the caption that history is unavailable.
chart_of(h) == IF ~df_empty(h) THEN "line" ELSE "caption"

NoSnapshot == [top_abs |-> 0, top_pct |-> 0, worst_abs |-> 0, chart |-> "none"]

(***************************************************************************)
(* The script run main()                                                   *)
(***************************************************************************)
NoPrev == [valid |-> FALSE, rows |-> <<>>]

\* A run that has loaded the file and may still write it.
InFlight == {"sidebar", "loop"}

Ended == {"rerun", "stopped", "rendered", "killed"}

Init ==
    /\ file \in {NoFile, save_portfolio(<<LegacyHolding>>)}
    /\ cache = NoCache
    /\ pc = [r \in Runs |-> "start"]
    /\ portfolio = [r \in Runs |-> <<>>]
    /\ live_data = [r \in Runs |-> NoData]
    /\ i = [r \in Runs |-> 0]
    /\ portfolio_rows = [r \in Runs |-> <<>>]
    /\ data_updated = [r \in Runs |-> FALSE]
    /\ snapshot = [r \in Runs |-> NoSnapshot]
    /\ history_df = [r \in Runs |-> EmptyFrame]
    /\ writes = [r \in Runs |-> 0]
    /\ directives = [r \in Runs |-> <<>>]
    /\ log = <<>>
    /\ overlap = FALSE
    /\ prev = NoPrev

\* The memory of a script run before it has run.
Blank(r) ==
    /\ portfolio' = [portfolio EXCEPT ![r] = <<>>]
    /\ live_data' = [live_data EXCEPT ![r] = NoData]
    /\ i' = [i EXCEPT ![r] = 0]
    /\ portfolio_rows' = [portfolio_rows EXCEPT ![r] = <<>>]
    /\ data_updated' = [data_updated EXCEPT ![r] = FALSE]
    /\ snapshot' = [snapshot EXCEPT ![r] = NoSnapshot]
    /\ history_df' = [history_df EXCEPT ![r] = EmptyFrame]
    /\ directives' = [directives EXCEPT ![r] = <<>>]

\* Line 88: portfolio = load_portfolio()
Load(r) ==
    /\ pc[r] = "start"
    /\ portfolio' = [portfolio EXCEPT ![r] = load_portfolio]
    /\ pc' = [pc EXCEPT ![r] = "sidebar"]
    /\ overlap' = (overlap \/ \E q \in Runs \ {r} : pc[q] \in InFlight)
    /\ UNCHANGED <<file, cache, live_data, i, portfolio_rows, data_updated, snapshot,
                   history_df, writes, directives, log, prev>>

\* (The cache entry is taken to have expired by the time of the script run
\* that follows a sidebar write: that run downloads afresh.)
\* Lines 107-138: the form was submitted for ticker t with amount shares; the
\* buy price is the manual price, or the first Close of the history fetched for
\* the buy date.
AddStockWith(r, t, amount, final_buy_price) ==
    /\ LET p == dict_set(portfolio[r], t, NewHolding(t, amount, final_buy_price))
       IN  /\ portfolio' = [portfolio EXCEPT ![r] = p]
           /\ file' = save_portfolio(p)
           /\ log' = Append(log, [run |-> r, kind |-> "add", ticker |-> t,
                                  price |-> final_buy_price])
    /\ writes' = [writes EXCEPT ![r] = @ + 1]
    /\ pc' = [pc EXCEPT ![r] = "rerun"]
    /\ prev' = NoPrev
    /\ cache' = NoCache
    /\ UNCHANGED <<live_data, i, portfolio_rows, data_updated, snapshot,
                   history_df, directives, overlap>>

\* Lines 109-121: the manual price when one is given, else the first Close
\* of the history.
final_price(manual_price, hist) == IF manual_price > 0 THEN manual_price ELSE hist[1]

\* The form's inputs are drawn from the sets T, A, M and H.
AddStock(r, T, A, M, H) ==
    /\ pc[r] = "sidebar"
    /\ \E t \in T, a \in A :
          \E p \in {final_price(m, h) : m \in {x \in M : x > 0}, h \in H}
                   \cup {final_price(0, h) : h \in {x \in H : x # <<>>}} :
             AddStockWith(r, t, a, p)

\* Lines 122-127: no manual price and no history: st.stop(), nothing is saved.
AddStockStopped(r) ==
    /\ pc[r] = "sidebar"
    /\ pc' = [pc EXCEPT ![r] = "stopped"]
    /\ UNCHANGED <<file, cache, portfolio, live_data, i, portfolio_rows, data_updated,
                   snapshot, history_df, writes, directives, log, overlap, prev>>

\* Lines 140-146: Remove Selected
RemoveTicker(r, t) ==
    /\ LET p == dict_del(portfolio[r], t)
       IN  /\ portfolio' = [portfolio EXCEPT ![r] = p]
           /\ file' = save_portfolio(p)
    /\ log' = Append(log, [run |-> r, kind |-> "remove", ticker |-> t, price |-> 0])
    /\ writes' = [writes EXCEPT ![r] = @ + 1]
    /\ pc' = [pc EXCEPT ![r] = "rerun"]
    /\ prev' = NoPrev
    /\ cache' = NoCache
    /\ UNCHANGED <<live_data, i, portfolio_rows, data_updated, snapshot,
                   history_df, directives, overlap>>

\* The selectbox offers the keys of the portfolio.
RemoveSelected(r) ==
    /\ pc[r] = "sidebar"
    /\ portfolio[r] # <<>>
    /\ \E k \in 1..Len(portfolio[r]) : RemoveTicker(r, portfolio[r][k].ticker)

\* Lines 151-153: the portfolio is empty: return.
EmptyPortfolio(r) ==
    /\ pc[r] = "sidebar"
    /\ portfolio[r] = <<>>
    /\ pc' = [pc EXCEPT ![r] = "stopped"]
    /\ UNCHANGED <<file, cache, portfolio, live_data, i, portfolio_rows, data_updated,
                   snapshot, history_df, writes, directives, log, overlap, prev>>

\* Lines 155-161 with the state the loop starts from.
StartCycle(r, ld) ==
    /\ live_data' = [live_data EXCEPT ![r] = ld]
    /\ pc' = [pc EXCEPT ![r] = "loop"]
    /\ i' = [i EXCEPT ![r] = 1]
    /\ portfolio_rows' = [portfolio_rows EXCEPT ![r] = <<>>]
    /\ data_updated' = [data_updated EXCEPT ![r] = FALSE]
    /\ directives' = [directives EXCEPT ![r] = <<>>]
    /\ UNCHANGED <<file, portfolio, snapshot, history_df, writes, log, overlap>>

\* Lines 71-75, 156: get_live_data(tickers) answered by st.cache_data within
\* the ttl for the same ticker list.
GetLiveDataCached(r) ==
    /\ pc[r] = "sidebar"
    /\ portfolio[r] # <<>>
    /\ cache.valid
    /\ cache.tickers = keys(portfolio[r])
    /\ StartCycle(r, cache.data)
    /\ UNCHANGED <<cache, prev>>

\* Lines 71-75, 156: get_live_data(tickers) downloads one of the frames of LD
\* and caches it.
GetLiveDataFetch(r, LD) ==
    /\ pc[r] = "sidebar"
    /\ portfolio[r] # <<>>
    /\ ~(cache.valid /\ cache.tickers = keys(portfolio[r]))
    /\ \E ld \in LD :
          /\ StartCycle(r, ld)
          /\ cache' = [valid |-> TRUE, tickers |-> keys(portfolio[r]), data |-> ld]
    /\ prev' = NoPrev

\* Line 71: the ttl of the cache entry runs out (seen by the next script run:
\* a run under way has its live_data already).
CacheExpire ==
    /\ cache.valid
    /\ \A r \in Runs : pc[r] = "start"
    /\ cache' = NoCache
    /\ prev' = NoPrev
    /\ UNCHANGED <<file, pc, portfolio, live_data, i, portfolio_rows, data_updated,
                   snapshot, history_df, writes, directives, log, overlap>>

\* Lines 163-213: one pass of the loop, for the holding at position i.
ValueHolding(r) ==
    /\ pc[r] = "loop"
    /\ i[r] <= Len(portfolio[r])
    /\ LET info == portfolio[r][i[r]]
           ld == live_data[r]
           live == HasLivePrice(ld, info.ticker)
           update == live /\ needs_update(info, price_candidate(ld, info.ticker))
           current_price == IF live THEN price_candidate(ld, info.ticker)
                            ELSE fallback_price(info)
       IN  /\ portfolio' = [portfolio EXCEPT ![r][i[r]] =
                               IF update THEN SetLkp(info, current_price) ELSE info]
           /\ data_updated' = [data_updated EXCEPT ![r] = @ \/ update]
           /\ directives' = [directives EXCEPT ![r] =
                               IF update
                               THEN Append(@, [ticker |-> info.ticker,
                                               price |-> current_price])
                               ELSE @]
           /\ portfolio_rows' = [portfolio_rows EXCEPT ![r] =
                                   append_row(@, Row(info, current_price))]
    /\ i' = [i EXCEPT ![r] = @ + 1]
    /\ UNCHANGED <<file, cache, pc, live_data, snapshot, history_df, writes, log,
                   overlap, prev>>

\* (mutant) the portfolio is saved after every cycle.
should_save_always(r) == TRUE

\* Line 215: if data_updated
should_save(r) == data_updated[r]

\* The log entries of the cycle's write: one per price update it carries.
UpdateEntries(r) ==
    [k \in 1..Len(directives[r]) |->
        [run |-> r, kind |-> "update", ticker |-> directives[r][k].ticker,
         price |-> directives[r][k].price]]

\* Lines 215-216: after the loop, one save_portfolio if a price was updated.
SavePrices(r) ==
    /\ pc[r] = "loop"
    /\ i[r] > Len(portfolio[r])
    /\ IF should_save(r)
       THEN /\ file' = save_portfolio(portfolio[r])
            /\ writes' = [writes EXCEPT ![r] = @ + 1]
            /\ log' = log \o UpdateEntries(r)
       ELSE UNCHANGED <<file, writes, log>>
    /\ pc' = [pc EXCEPT ![r] = "render"]
    /\ UNCHANGED <<cache, portfolio, live_data, i, portfolio_rows, data_updated,
                   snapshot, history_df, directives, overlap, prev>>

\* Lines 218-316: the metrics and the history chart.
Render(r) ==
    /\ pc[r] = "render"
    /\ IF portfolio_rows[r] = <<>>
       THEN /\ pc' = [pc EXCEPT ![r] = "stopped"]
            /\ UNCHANGED <<snapshot, history_df, prev>>
       ELSE LET h == HistoryFold(portfolio[r], live_data[r], Len(portfolio[r])) IN
            /\ snapshot' = [snapshot EXCEPT ![r] =
                   [top_abs |-> idxmax(GainLossCol(portfolio_rows[r])),
                    top_pct |-> idxmax_pct(GainPctCol(portfolio_rows[r])),
                    worst_abs |-> idxmin(GainLossCol(portfolio_rows[r])),
                    chart |-> chart_of(h)]]
            /\ history_df' = [history_df EXCEPT ![r] = h]
            /\ prev' = [valid |-> TRUE, rows |-> portfolio_rows[r]]
            /\ pc' = [pc EXCEPT ![r] = "rendered"]
    /\ UNCHANGED <<file, cache, portfolio, live_data, i, portfolio_rows, data_updated,
                   writes, directives, log, overlap>>

\* The process is killed while the run is under way: its memory, the cache
\* included, is lost.
Interrupt(r) ==
    /\ pc[r] \in {"sidebar", "loop", "render"}
    /\ pc' = [pc EXCEPT ![r] = "killed"]
    /\ Blank(r)
    /\ cache' = NoCache
    /\ prev' = NoPrev
    /\ UNCHANGED <<file, writes, log, overlap>>

\* st.rerun(), or the next interaction: a new script run starts from scratch.
Rerun(r) ==
    /\ pc[r] \in Ended
    /\ pc' = [pc EXCEPT ![r] = "start"]
    /\ Blank(r)
    /\ writes' = [writes EXCEPT ![r] = 0]
    /\ log' = <<>>
    /\ UNCHANGED <<file, cache, overlap, prev>>

\* The values of the sidebar form: st.number_input(min_value=0.0001) for the
\* shares (the holding of the existing file has 1 share, a new one MaxShares),
\* st.number_input(min_value=0.0) for the manual price.
Amounts == {MaxShares}

ManualPrices == 0..MaxPrice

\* hist['Close'] of line 119: empty, or its first cell.
Hists == {<<>>} \cup {<<c>> : c \in Prices}

\* One session: script run after script run.
Next ==
    \/ Load(1)
    \/ AddStock(1, Tickers, Amounts, ManualPrices, Hists)
    \/ AddStockStopped(1)
    \/ RemoveSelected(1)
    \/ EmptyPortfolio(1)
    \/ GetLiveDataCached(1)
    \/ GetLiveDataFetch(1, LiveData(keys(portfolio[1])))
    \/ CacheExpire
    \/ ValueHolding(1)
    \/ SavePrices(1)
    \/ Render(1)
    \/ Interrupt(1)
    \/ Rerun(1)

Spec == Init /\ [][Next]_vars

\* Two sessions, one script run each, interleaved at their file accesses.
\* Their downloads carry every requested ticker with a full Close column, and
\* their forms a manual price.
ConcLive(tk) ==
    {ld \in KeyedData(tk, NDates) :
        /\ DOMAIN ld.frames = {tk[k] : k \in 1..Len(tk)}
        /\ \A t \in DOMAIN ld.frames : DOMAIN ld.frames[t].Close = 1..NDates}

NextConc ==
    \E r \in Runs :
        \/ Load(r)
        \/ AddStock(r, Tickers, Amounts, ManualPrices \ {0}, {<<>>})
        \/ RemoveSelected(r)
        \/ EmptyPortfolio(r)
        \/ GetLiveDataCached(r)
        \/ GetLiveDataFetch(r, ConcLive(keys(portfolio[r])))
        \/ ValueHolding(r)
        \/ SavePrices(r)
        \/ Render(r)

SpecConc == Init /\ [][NextConc]_vars

(***************************************************************************)
(* Properties of the valuation cycle, checked under Spec (one session)     *)
(***************************************************************************)
\* The freshly observed price of ticker t is there and valid: the latest cell
\* of its Close column is a number > 0.
ObservedValid(ld, t) ==
    LET df == stock_df(ld, t) IN
        df.hasClose /\ ld.n \in DOMAIN df.Close /\ df.Close[ld.n] > 0

Observed(ld, t) == stock_df(ld, t).Close[ld.n]

\* The price series of ticker t has no valid entry: no data or no Close
\* column, every value missing, or a latest value missing, zero or negative.
NoValidEntry(ld, t) ==
    LET df == stock_df(ld, t) IN
        \/ ~df.hasClose
        \/ DOMAIN df.Close = {}
        \/ ld.n \notin DOMAIN df.Close
        \/ df.Close[ld.n] <= 0

\* The holding at position k as the file stores it.
Stored(k) == file.content[k]

\* C1: in a valuation cycle, the row of a holding whose price series has no
\* valid entry carries the stored last_known_price as its current price, and
\* 0 when the holding stores no last_known_price.
C1_Fallback ==
    \A r \in Runs :
        pc[r] = "loop" =>
            \A k \in 1..Len(portfolio_rows[r]) :
                NoValidEntry(live_data[r], Stored(k).ticker) =>
                    portfolio_rows[r][k].CurrentPrice =
                        (IF HasLkp(Stored(k)) THEN Stored(k).last_known_price ELSE 0)

\* Two holdings without a valid entry have been valued: the first stores no
\* last_known_price, the second stores one that differs from its buy price.
C1_Witness ==
    /\ pc[1] = "loop"
    /\ Len(portfolio_rows[1]) = 2
    /\ NoValidEntry(live_data[1], Stored(1).ticker)
    /\ NoValidEntry(live_data[1], Stored(2).ticker)
    /\ ~HasLkp(Stored(1))
    /\ portfolio_rows[1][1].CurrentPrice = 0
    /\ HasLkp(Stored(2))
    /\ Stored(2).last_known_price # Stored(2).buy_price
    /\ portfolio_rows[1][2].CurrentPrice = Stored(2).last_known_price

\* The holding stored at k is due an update: the observed price is valid and
\* differs from the stored last_known_price.
DueUpdate(ld, k) ==
    /\ ObservedValid(ld, Stored(k).ticker)
    /\ ~HasLkp(Stored(k)) \/ Stored(k).last_known_price # Observed(ld, Stored(k).ticker)

\* C2: during a cycle a holding is changed only when its observed price is
\* valid and differs from the stored last_known_price, which is then set to
\* the observed price; any other holding is left as stored, and the update
\* flag is raised exactly when some holding was changed so.
C2_UpdateOnlyWhenChanged ==
    \A r \in Runs :
        pc[r] = "loop" =>
            /\ Len(portfolio[r]) = Len(file.content)
            /\ \A k \in 1..Len(portfolio[r]) :
                  portfolio[r][k] =
                      (IF k < i[r] /\ DueUpdate(live_data[r], k)
                       THEN [ticker |-> Stored(k).ticker, shares |-> Stored(k).shares,
                             buy_price |-> Stored(k).buy_price,
                             last_known_price |-> Observed(live_data[r], Stored(k).ticker)]
                       ELSE Stored(k))
            /\ data_updated[r] <=>
                  \E k \in 1..(i[r] - 1) : DueUpdate(live_data[r], k)

\* Both holdings have been valued: the first had a changed valid price, the
\* second a valid price equal to the stored one.
C2_Witness ==
    /\ pc[1] = "loop"
    /\ i[1] = 3
    /\ DueUpdate(live_data[1], 1)
    /\ ObservedValid(live_data[1], Stored(2).ticker)
    /\ ~DueUpdate(live_data[1], 2)
    /\ portfolio[1][2] = Stored(2)
    /\ portfolio[1][1] # Stored(1)

\* The last_known_price the file stores for ticker t is price.
Persisted(t, price) ==
    \E k \in 1..Len(file.content) :
        /\ file.content[k].ticker = t
        /\ HasLkp(file.content[k])
        /\ file.content[k].last_known_price = price

C3_State ==
    \A r \in Runs :
        /\ pc[r] = "loop" =>
              /\ writes[r] = 0
              /\ \A k \in 1..Len(directives[r]) :
                    ~Persisted(directives[r][k].ticker, directives[r][k].price)
        /\ pc[r] \in {"render", "rendered"} =>
              /\ writes[r] = (IF directives[r] # <<>> THEN 1 ELSE 0)
              /\ \A k \in 1..Len(directives[r]) :
                    Persisted(directives[r][k].ticker, directives[r][k].price)

C3_Step ==
    \A r \in Runs :
        pc[r] = "loop" /\ file' # file =>
            /\ i[r] > Len(portfolio[r])
            /\ pc'[r] = "render"
            /\ file' = save_portfolio(portfolio[r])

\* C3: the price updates of a cycle are persisted by one write after the loop:
\* while the loop runs nothing is written and the file holds none of the
\* cycle's updates (so a cycle cut short before the write leaves none), the
\* file changes only in the step that ends the loop, and after it the cycle
\* has written once if it updated a price and not at all otherwise.
C3_SingleWriteAtEnd == []C3_State /\ [][C3_Step]_vars

\* The loop has updated both holdings and nothing is written yet.
C3_Witness ==
    /\ pc[1] = "loop"
    /\ Len(directives[1]) = 2
    /\ writes[1] = 0
    /\ file.content # portfolio[1]

\* C4: the cycle of a non-empty portfolio yields one row per holding, in
\* portfolio order, whatever the market data: during the loop the rows are
\* those of the holdings valued so far, after it those of every holding of the
\* file, and the cycle never ends on an empty row list.
C4_OneRowPerHolding ==
    \A r \in Runs :
        /\ pc[r] = "loop" =>
              /\ Len(portfolio_rows[r]) = i[r] - 1
              /\ \A k \in 1..Len(portfolio_rows[r]) :
                    portfolio_rows[r][k].Ticker = Stored(k).ticker
        /\ pc[r] \in {"render", "rendered"} =>
              /\ portfolio_rows[r] # <<>>
              /\ Len(portfolio_rows[r]) = Len(file.content)
              /\ \A k \in 1..Len(portfolio_rows[r]) :
                    portfolio_rows[r][k].Ticker = Stored(k).ticker

\* A cycle over two holdings has completed on a download that failed for every
\* ticker (no key, empty index).
C4_Witness ==
    /\ pc[1] = "rendered"
    /\ Len(file.content) = 2
    /\ Len(portfolio_rows[1]) = 2
    /\ live_data[1].n = 0
    /\ DOMAIN live_data[1].frames = {}

\* Every row of every run.
AllRows == UNION {{portfolio_rows[r][k] : k \in 1..Len(portfolio_rows[r])} : r \in Runs}

RowCost(row) == row.BuyPrice * row.Shares

RowDerived(row) ==
    /\ row.CurrentValue = row.CurrentPrice * row.Shares
    /\ row.GainLoss = row.CurrentValue - RowCost(row)

\* The fraction f is the percentage gain / cost * 100 (cost # 0).
IsPercent(f, gain, cost) == f.den > 0 /\ f.num * cost = gain * 100 * f.den

IsZero(f) == f.den > 0 /\ f.num = 0

\* C5 as claimed: gain_percent is 0 when the cost basis is 0 and the signed
\* percentage gain_amount / cost_basis * 100 for every other cost basis.
C5_Original ==
    \A row \in AllRows :
        /\ RowDerived(row)
        /\ RowCost(row) = 0 => IsZero(row.GainPct)
        /\ RowCost(row) # 0 => IsPercent(row.GainPct, row.GainLoss, RowCost(row))

\* C5 (amended): gain_percent is 0 whenever the cost basis is zero or negative
\* and the signed percentage gain_amount / cost_basis * 100 for every positive
\* cost basis, with cost_basis = buy price * shares and gain_amount =
\* current value - cost_basis.
C5_GainPercent ==
    \A row \in AllRows :
        /\ RowDerived(row)
        /\ RowCost(row) <= 0 => IsZero(row.GainPct)
        /\ RowCost(row) > 0 => IsPercent(row.GainPct, row.GainLoss, RowCost(row))

\* Rows with a zero, a negative and a positive cost basis, each with a gain.
C5_Witness ==
    /\ \E row \in AllRows : RowCost(row) = 0 /\ row.GainLoss > 0 /\ IsZero(row.GainPct)
    /\ \E row \in AllRows : RowCost(row) > 0 /\ row.GainLoss < 0 /\ row.GainPct.num < 0

\* The per-ticker value series of a holding: closing price * quantity on
\* every date the ticker has a closing price (none without a Close column).
ValueSeries(ld, info) ==
    LET df == stock_hist(ld, info.ticker) IN
        IF df.hasClose THEN [d \in DOMAIN df.Close |-> df.Close[d] * info.shares]
        ELSE <<>>

\* The sum over the first k holdings of p of their value on date d, a ticker
\* without an entry on d counting 0.
RECURSIVE SumAt(_, _, _, _)
SumAt(p, ld, d, k) ==
    IF k = 0 THEN 0
    ELSE SumAt(p, ld, d, k - 1)
         + (IF d \in DOMAIN ValueSeries(ld, p[k]) THEN ValueSeries(ld, p[k])[d] ELSE 0)

Reverse(p) == [k \in 1..Len(p) |-> p[Len(p) + 1 - k]]

\* C6: the total-value series is the outer merge by date of the per-ticker
\* value series: its dates are the union of their dates, its value on a date
\* is the sum of the tickers' values on that date (0 for a ticker without an
\* entry), and processing the tickers in the reverse order gives the same.
C6_OuterMerge ==
    \A r \in Runs :
        pc[r] = "rendered" /\ snapshot[r].chart = "line" =>
            LET p == portfolio[r]
                ld == live_data[r]
                total == history_df[r].TotalValue
            IN  /\ DOMAIN total = UNION {DOMAIN ValueSeries(ld, p[k]) : k \in 1..Len(p)}
                /\ \A d \in DOMAIN total : total[d] = SumAt(p, ld, d, Len(p))
                /\ HistoryFold(Reverse(p), ld, Len(p)) = history_df[r]

\* Scenario E: the first ticker has every date, the second lacks the first
\* date, and the totals are the first ticker's value alone on the first date
\* and the sum of both on the last.
C6_Witness ==
    /\ pc[1] = "rendered"
    /\ snapshot[1].chart = "line"
    /\ Len(portfolio[1]) = 2
    /\ portfolio[1][1].shares # portfolio[1][2].shares
    /\ DOMAIN ValueSeries(live_data[1], portfolio[1][1]) = 1..NDates
    /\ DOMAIN ValueSeries(live_data[1], portfolio[1][2]) = {NDates}
    /\ DOMAIN history_df[1].TotalValue = 1..NDates
    /\ history_df[1].TotalValue[1] = ValueSeries(live_data[1], portfolio[1][1])[1]
    /\ history_df[1].TotalValue[NDates] =
          ValueSeries(live_data[1], portfolio[1][1])[NDates]
          + ValueSeries(live_data[1], portfolio[1][2])[NDates]
    /\ ValueSeries(live_data[1], portfolio[1][2])[NDates] > 0

\* A ticker yields a usable price series: its Close column is there and not
\* every value of it is missing.
Usable(ld, t) ==
    stock_hist(ld, t).hasClose /\ DOMAIN stock_hist(ld, t).Close # {}

\* C7 as claimed: when no held ticker yields a usable price series the history
\* aggregation reports "history unavailable" and produces no total-value
\* series.
C7_Original ==
    \A r \in Runs :
        pc[r] = "rendered" =>
            ((\A k \in 1..Len(portfolio[r]) :
                  ~Usable(live_data[r], portfolio[r][k].ticker))
             => snapshot[r].chart = "caption" /\ df_empty(history_df[r]))

\* C8: the best absolute performer is the first row with the maximum gain, the
\* worst absolute performer a row with the minimum gain, and the best percent
\* performer a row with the maximum gain percent.
C8_Performers ==
    \A r \in Runs :
        pc[r] = "rendered" =>
            LET rows == portfolio_rows[r]
                ta == snapshot[r].top_abs
                tp == snapshot[r].top_pct
                wa == snapshot[r].worst_abs
            IN  /\ {ta, tp, wa} \subseteq 1..Len(rows)
                /\ \A j \in 1..Len(rows) : rows[j].GainLoss <= rows[ta].GainLoss
                /\ \A j \in 1..(ta - 1) : rows[j].GainLoss < rows[ta].GainLoss
                /\ \A j \in 1..Len(rows) : rows[wa].GainLoss <= rows[j].GainLoss
                /\ \A j \in 1..Len(rows) :
                      rows[j].GainPct.num * rows[tp].GainPct.den
                          <= rows[tp].GainPct.num * rows[j].GainPct.den

\* Scenario D: the row with the larger gain has the smaller gain percent, so
\* the absolute and the percent winners differ.
C8_Witness ==
    /\ pc[1] = "rendered"
    /\ Len(portfolio_rows[1]) = 2
    /\ snapshot[1].top_abs = 1
    /\ snapshot[1].top_pct = 2
    /\ snapshot[1].worst_abs = 2
    /\ portfolio_rows[1][1].GainLoss > portfolio_rows[1][2].GainLoss
    /\ portfolio_rows[1][2].GainLoss > 0
    /\ portfolio_rows[1][1].BuyPrice >= 0
    /\ portfolio_rows[1][1].GainPct.num * portfolio_rows[1][2].GainPct.den
          < portfolio_rows[1][2].GainPct.num * portfolio_rows[1][1].GainPct.den

\* C10: after a completed cycle every holding with a valid observed price has
\* that price persisted as its last_known_price; and a further cycle on the
\* same (cached) market data, with no add or remove since the completed one,
\* updates no price, writes nothing and yields the same rows.
C10_Idempotent ==
    \A r \in Runs :
        /\ pc[r] = "rendered" =>
              \A k \in 1..Len(file.content) :
                  ObservedValid(live_data[r], Stored(k).ticker) =>
                      /\ HasLkp(Stored(k))
                      /\ Stored(k).last_known_price = Observed(live_data[r], Stored(k).ticker)
        /\ pc[r] = "render" /\ prev.valid =>
              /\ portfolio_rows[r] = prev.rows
              /\ ~data_updated[r]
              /\ writes[r] = 0
              /\ directives[r] = <<>>

\* A second cycle on the cached data has passed its save point, after a first
\* cycle that priced a holding afresh (its current price is not its buy price).
C10_Witness ==
    /\ pc[1] = "render"
    /\ prev.valid
    /\ cache.valid
    /\ live_data[1] = cache.data
    /\ \E k \in 1..Len(portfolio_rows[1]) :
          /\ ObservedValid(live_data[1], portfolio_rows[1][k].Ticker)
          /\ portfolio_rows[1][k].CurrentPrice # portfolio_rows[1][k].BuyPrice

(***************************************************************************)
(* The portfolio store under two interleaved script runs (SpecConc)        *)
(***************************************************************************)
AllEnded == \A r \in Runs : pc[r] \in Ended

\* The file holds ticker t as it was added at buy price price.
PersistedHolding(t, price) ==
    \E k \in 1..Len(file.content) :
        file.content[k].ticker = t /\ file.content[k].buy_price = price

\* A later completed write deals with the ticker of the n-th one.
Superseded(n) == \E m \in (n + 1)..Len(log) : log[m].ticker = log[n].ticker

\* Every completed add and price update is in the file, unless a later
\* completed write removed, re-added or re-priced its ticker.
NoWriteLost ==
    \A n \in 1..Len(log) :
        ~Superseded(n) =>
            /\ log[n].kind = "add" => PersistedHolding(log[n].ticker, log[n].price)
            /\ log[n].kind = "update" => Persisted(log[n].ticker, log[n].price)

\* C9 as claimed: however two script runs interleave, once both have ended
\* the file has every holding added and not removed and every price update
\* written.
C9_Original == AllEnded => NoWriteLost

\* C9 (amended): when the two script runs do not overlap (neither loads the
\* file while the other is between its load and its save), the file has, once
\* both have ended, every holding added and not removed and every price
\* update written.
C9_SerialRunsKeepWrites == AllEnded /\ ~overlap => NoWriteLost

\* Two runs that did not overlap have ended, each having written to another
\* ticker, one an add and one a price update.
C9_Witness ==
    /\ AllEnded
    /\ ~overlap
    /\ Len(log) = 2
    /\ log[1].run # log[2].run
    /\ log[1].ticker # log[2].ticker
    /\ {log[1].kind, log[2].kind} = {"add", "update"}
    /\ NoWriteLost

====
